---- MODULE Spec2Model ----
(***************************************************************************)
(* A model of mcTranslate's concurrent, resumable translation pipeline     *)
(* (src/main.js, and the earlier src/unnamed/part_000):                    *)
(*   - translateQueue, the bounded worker pool, on its own with an         *)
(*     abstract task that may fail (SpecQ, FairSpecQ);                      *)
(*   - the whole run: main, translateJsonConcurrent walking a document     *)
(*     through nested translateQueue calls, the per-leaf pass loop, the    *)
(*     SIGINT flag, the checkpoint file and resume (Spec).                 *)
(*                                                                         *)
(* JavaScript runs one continuation at a time.  A continuation that only   *)
(* waits for an already settled promise runs before any timer, I/O         *)
(* completion or signal is handled; the model calls such a step a          *)
(* microstep and lets timers, I/O completions and SIGINT happen only when  *)
(* no microstep is pending.                                                *)
(***************************************************************************)
EXTENDS Integers, Sequences, FiniteSets, TLC

\* ---------------------------------------------------------------- bounds
MaxItems == 3
MaxWorkers == 2
MaxFails == 2
MaxRepeat == 2
MaxThreads == 2
MaxTransFails == 1
MaxResumes == 1
MaxSaveFails == 1

VARIABLES
    \* ---- translateQueue on its own
    items,          \* the items argument, a function on 0..M-1
    workerCount,    \* the workerCount argument
    startDelay,     \* the startDelay argument
    variant,        \* "main" (src/main.js) or "part_000" (no isExiting test)
    qpc,            \* "init", "running", "returned", "rejected", "killed"
    index,          \* let index = 0
    results,        \* const results = [] : a function on the assigned slots
    worker,         \* each worker's (or, unbounded, each item task's) position
    claims,         \* per item: how often  i = index++  yielded it
    calls,          \* per item: invocations of translator(items[i], i)
    fails,          \* per item: invocations that threw
    sleeps,         \* per item: completed  await sleep(retryDelay)
    ret,            \* what translateQueue resolved with
    order,          \* history: the items in the order their invocations fulfilled
    isExiting,      \* let isExiting = false, set by the SIGINT handler
    \* ---- the whole run
    srcDoc,         \* the lang file extracted from the jar: fs.readJson(langPath)
    argv,           \* this process's command line: [repeat, threads]
    langJson,       \* main's langJson, the document that is walked
    times,          \* main's repeatCount, translateJsonConcurrent's times
    threads,        \* main's threads
    mainpc,         \* "setup", "walking", "writing", "clearing", "done", "failed", "exited"
    task,           \* per node: the translateJsonConcurrent call on it
    leaf,           \* per node: the locals of the string branch
    queue,          \* per node: the translateQueue call of an array or object
    writes,         \* per node: the record handed to fs.writeJson(RESUME_FILE)
    progress,       \* main's progress object
    resumeFile,     \* RESUME_FILE on disk
    outFile,        \* langPath on disk, once main has written it
    hist            \* history: counts and snapshots the claims speak about

qvars == <<items, workerCount, startDelay, variant, qpc, index, results,
           worker, claims, calls, fails, sleeps, ret, order>>

rvars == <<srcDoc, argv, langJson, times, threads, mainpc, task, leaf, queue,
           writes, progress, resumeFile, outFile, hist>>

vars == <<qvars, isExiting, rvars>>


\* ------------------------------------------------------------------------
\* translateQueue's tests and assignments (src/main.js:109-131,
\* src/unnamed/part_000:65-91)
\* ------------------------------------------------------------------------
ItemNames == <<"a", "b", "c", "d", "e">>

None == "undefined"

Idx == DOMAIN items

\* What the translator returns for its att-th invocation on an item.
Out(item, att) == <<item, att>>

\* if (!workerCount)
IsUnbounded(wc) == wc = 0

CanClaimIgnoringFlag(idx, len, exiting, v) == idx < len

\* while (index < items.length && !isExiting)   (part_000: while (index < items.length))
CanClaim(idx, len, exiting, v) == idx < len /\ (v = "part_000" \/ ~exiting)

\* while (!isExiting)   (part_000: while (true))
CanRetry(exiting, v) == v = "part_000" \/ ~exiting

NextIndexStuck(idx) == idx

\* const i = index++
NextIndex(idx) == idx + 1

StoreResultPush(res, i, v) ==
    LET n == Cardinality(DOMAIN res)
    IN [j \in DOMAIN res \cup {n} |-> IF j = n THEN v ELSE res[j]]

\* results[i] = <value>
StoreResult(res, i, v) == [j \in DOMAIN res \cup {i} |-> IF j = i THEN v ELSE res[j]]

\* ------------------------------------------------------------------------
\* Documents (parsed JSON) and paths
\* ------------------------------------------------------------------------
\* A JSON value: kind, the scalar's content (a string is the sequence of its
\* pieces, "" is << >>), an object's keys in Object.keys order (an array's are
\* "0", "1", ...), and the children by key.  A hole of a sparse array is a
\* key without a child.
Str(s)  == [kind |-> "string", val |-> s, keys |-> << >>, vals |-> << >>]
Num(n)  == [kind |-> "number", val |-> <<n>>, keys |-> << >>, vals |-> << >>]
Obj(ks, vs) == [kind |-> "object", val |-> << >>, keys |-> ks,
                vals |-> [k \in {ks[j] : j \in 1..Len(ks)} |->
                            vs[CHOOSE j \in 1..Len(ks) : ks[j] = k]]]
ArrayKeys(len) == [j \in 1..len |-> ToString(j - 1)]
Arr(vs) == [Obj(ArrayKeys(Len(vs)), vs) EXCEPT !.kind = "array"]
NoValue == [kind |-> "none", val |-> << >>, keys |-> << >>, vals |-> << >>]

\* The lang files the runs are tried on.
Docs == { Str(<<"Hello">>),
          Obj(<<"a", "n", "b">>, <<Str(<<"Hello">>), Num("5"), Arr(<<Str(<<"World">>)>>)>>),
          Obj(<<"__proto__">>, <<Str(<<"p">>)>>),
          Obj(<<"a.b", "a">>, <<Str(<<"x">>), Obj(<<"b">>, <<Str(<<"y">>)>>)>>) }

\* The translators' languages (getLanguages), and the language of the way back.
Languages == {"fr"}

IsContainer(v) == v.kind \in {"array", "object"}

\* A node is named by the child indices (from 0) leading to it from the root.
RECURSIVE Nodes(_)
Nodes(v) == {<< >>} \cup
            UNION { { <<j - 1>> \o q : q \in Nodes(v.vals[v.keys[j]]) } :
                    j \in 1..Len(v.keys) }

RECURSIVE NodeAt(_, _)
NodeAt(v, pos) == IF pos = << >> THEN v
                  ELSE NodeAt(v.vals[v.keys[Head(pos) + 1]], Tail(pos))

Root == << >>

\* path: `${pathPrefix}[${i}]`  for an array's item
\* path: pathPrefix ? `${pathPrefix}.${key}` : key  for an object's item
ItemPath(kind, pathPrefix, key) ==
    IF kind = "array" THEN pathPrefix \o "[" \o key \o "]"
    ELSE IF pathPrefix # "" THEN pathPrefix \o "." \o key
    ELSE key

\* a || b on numbers
OrNum(a, b) == IF a # 0 THEN a ELSE b

\* a || b on JSON values: "" is the only falsy one among strings, objects and arrays
OrValue(a, b) == IF a.kind = "string" /\ a.val = << >> THEN b ELSE a

\* acc[key] = value on a plain object: Object.prototype's __proto__ setter takes
\* the assignment and creates no own property.
SetProp(acc, key, value) ==
    IF key = "__proto__" THEN acc
    ELSE [acc EXCEPT !.keys = IF key \in DOMAIN acc.vals THEN @ ELSE Append(@, key),
                     !.vals = [k \in DOMAIN @ \cup {key} |->
                                 IF k = key THEN value ELSE @[k]]]

\* The length of the array  results : one more than its highest assigned slot.
ArrLen(res) == IF DOMAIN res = {} THEN 0
               ELSE 1 + CHOOSE m \in DOMAIN res : \A j \in DOMAIN res : j <= m

\* translatedValues.reduce((acc, {key, value}) => { acc[key] = value; return acc }, {})
RECURSIVE Reduce(_, _, _, _)
Reduce(res, keys, j, acc) ==
    IF j >= ArrLen(res) THEN acc
    ELSE IF j \notin DOMAIN res THEN Reduce(res, keys, j + 1, acc)
    ELSE Reduce(res, keys, j + 1, SetProp(acc, keys[j + 1], res[j]))

\* What translateJsonConcurrent returns for an array (the results array
\* itself) or an object (the reduce of the results).
Assemble(kind, keys, res) ==
    IF kind = "array"
    THEN [kind |-> "array", val |-> << >>, keys |-> ArrayKeys(ArrLen(res)),
          vals |-> [k \in {ToString(j) : j \in DOMAIN res} |->
                      res[CHOOSE j \in DOMAIN res : ToString(j) = k]]]
    ELSE Reduce(res, keys, 0, [kind |-> "object", val |-> << >>,
                               keys |-> << >>, vals |-> << >>])

\* ------------------------------------------------------------------------
\* The run: main and translateJsonConcurrent (src/main.js:133-276)
\* ------------------------------------------------------------------------
\* What progress[uniquePath] reads is a count, or one of these two: undefined
\* when progress has no such key, and Object.prototype itself when it has no
\* such key and the key is "__proto__" (progress is a plain object).
Undefined == -1
NotANumber == -2

NoTask  == [st |-> "none", path |-> "", value |-> NoValue]
NoLeaf  == [i |-> 0, text |-> << >>, lang |-> "", attemptSucceeded |-> FALSE,
            entry |-> Undefined, passLog |-> << >>, callLog |-> << >>,
            backCalls |-> 0, empties |-> 0, fwdText |-> << >>, back |-> "none"]
NoQueue == [index |-> 0, results |-> << >>, worker |-> << >>]
NoFile  == [exists |-> FALSE, json |-> NoValue, progress |-> << >>,
            argv |-> [repeat |-> 0, threads |-> 0]]
NoHist  == [saveCalls |-> 0, fails |-> 0, resumes |-> 0, saved |-> {},
            cancelledAtWork |-> FALSE, saveFails |-> 0]

\* The state of the run's variables while translateQueue is looked at alone.
RunIdle ==
    /\ srcDoc = NoValue /\ argv = [repeat |-> 0, threads |-> 0]
    /\ langJson = NoValue /\ times = 0 /\ threads = 0 /\ mainpc = "idle"
    /\ task = << >> /\ leaf = << >> /\ queue = << >> /\ writes = << >>
    /\ progress = << >> /\ resumeFile = NoFile /\ outFile = NoValue
    /\ hist = NoHist

\* The state of translateQueue's variables while the run is looked at.
QueueIdle ==
    /\ items = << >> /\ workerCount = 0 /\ startDelay = 0 /\ variant = "main"
    /\ qpc = "idle" /\ index = 0 /\ results = << >> /\ worker = << >>
    /\ claims = << >> /\ calls = << >> /\ fails = << >> /\ sleeps = << >>
    /\ ret = << >>
    /\ order = << >>

Alive == mainpc \in {"setup", "walking", "writing", "clearing", "failed"}

Child(q, i) == Append(q, i)

ItemCount(q) == Len(NodeAt(langJson, q).keys)

\* The path translateQueue's item i of node q carries.
ChildPath(q, i) == LET nd == NodeAt(langJson, q)
                   IN ItemPath(nd.kind, task[q].path, nd.keys[i + 1])

\* The document as memory holds it: every string leaf with the text its task
\* has reached.
RECURSIVE CurrentTree(_)
CurrentTree(pos) ==
    LET nd == NodeAt(langJson, pos)
    IN IF nd.kind = "string"
       THEN IF task[pos].st = "none" THEN nd ELSE Str(leaf[pos].text)
       ELSE IF IsContainer(nd)
       THEN [nd EXCEPT !.vals = [k \in DOMAIN @ |->
               CurrentTree(Child(pos, (CHOOSE j \in 1..Len(nd.keys) : nd.keys[j] = k) - 1))]]
       ELSE nd

\* progress[uniquePath]
Get(P, path) == IF path \in DOMAIN P THEN P[path]
                ELSE IF path = "__proto__" THEN NotANumber
                ELSE Undefined

\* if (!progress[uniquePath]) progress[uniquePath] = 0
InitProgress(P, path) ==
    IF Get(P, path) \notin {0, Undefined} THEN P
    ELSE [x \in DOMAIN P \cup {path} |-> IF x = path THEN 0 ELSE P[x]]

\* progress[uniquePath] = i + 1
SetProgress(P, path, n) == [x \in DOMAIN P \cup {path} |-> IF x = path THEN n ELSE P[x]]

StartIndexZero(P, path) == 0

\* for (let i = progress[uniquePath]; ...
StartIndex(P, path) == Get(P, path)

\* ...; i < times && !isExiting; ...)   (an object compares as NaN: false)
ForCond(i, n, exiting) == i # NotANumber /\ i < n /\ ~exiting

\* while (!attemptSucceeded && !isExiting)
WhileCond(succeeded, exiting) == ~succeeded /\ ~exiting

\* { json: obj, progress, argv: argv }
Checkpoint(pos, P) == [exists |-> TRUE, json |-> NodeAt(langJson, pos),
                       progress |-> P, argv |-> argv]

\* The head of the for loop with the leaf's locals L: the next pass's first
\* translate call (the while loop's head holds whenever the for loop's does),
\* or the call of the way back to English.
EnterLoop(L, lng) ==
    IF ForCond(L.i, times, isExiting)
    THEN [st |-> "fwd",
          leaf |-> [L EXCEPT !.lang = lng, !.attemptSucceeded = FALSE,
                             !.callLog = Append(@, L.i)]]
    ELSE [st |-> "back", leaf |-> [L EXCEPT !.backCalls = @ + 1, !.fwdText = L.text]]

\* translateJsonConcurrent(obj, ..., pathPrefix, progress) up to its first
\* await, for the node at pos: what becomes of the node's task, locals and
\* queue, and of progress.
Dispatch(pos, path, P, lng) ==
    LET nd == NodeAt(langJson, pos)
    IN IF IsContainer(nd)
       THEN [task |-> [st |-> "running", path |-> path, value |-> NoValue],
             leaf |-> leaf[pos],
             queue |-> [index |-> 0, results |-> << >>,
                        worker |-> IF IsUnbounded(threads) THEN << >>
                                   ELSE [k \in 0..threads - 1 |-> [pc |-> "ready", i |-> -1]]],
             progress |-> P]
       ELSE IF nd.kind = "string"
       THEN LET P1 == InitProgress(P, path)
                L0 == [NoLeaf EXCEPT !.text = nd.val, !.i = StartIndex(P1, path),
                                     !.entry = Get(P, path)]
                E  == EnterLoop(L0, lng)
            IN [task |-> [st |-> E.st, path |-> path, value |-> NoValue],
                leaf |-> E.leaf, queue |-> queue[pos], progress |-> P1]
       ELSE [task |-> [st |-> "resolved", path |-> path, value |-> nd],
             leaf |-> leaf[pos], queue |-> queue[pos], progress |-> P]

\* ------------------------------------------------------------------------
\* translateQueue (src/main.js:109-131, src/unnamed/part_000:65-91)
\* ------------------------------------------------------------------------
AfterRejectGiveUp(w) == [w EXCEPT !.pc = "ready"]

\* catch { await sleep(retryDelay); } and round the inner loop again
AfterReject(w) == [w EXCEPT !.pc = "sleep"]

TotalFails == LET RECURSIVE Sum(_)
                  Sum(S) == IF S = {} THEN 0
                            ELSE LET i == CHOOSE x \in S : TRUE
                                 IN fails[i] + Sum(S \ {i})
              IN Sum(Idx)

AllDone == \A k \in DOMAIN worker : worker[k].pc = "done"

\* A continuation is pending that runs before any timer, I/O or signal.
MicroQ == /\ qpc = "running"
          /\ \/ \E k \in DOMAIN worker : worker[k].pc = "ready"
             \/ AllDone

InitQ ==
    /\ \E m \in 0..MaxItems : items = [i \in 0..m-1 |-> ItemNames[i+1]]
    /\ workerCount \in 0..MaxWorkers
    /\ startDelay \in {0, 1}
    /\ variant \in {"main", "part_000"}
    /\ qpc = "init"
    /\ index = 0
    /\ results = << >>
    /\ worker = << >>
    /\ claims = [i \in Idx |-> 0]
    /\ calls = [i \in Idx |-> 0]
    /\ fails = [i \in Idx |-> 0]
    /\ sleeps = [i \in Idx |-> 0]
    /\ ret = << >>
    /\ order = << >>
    /\ isExiting = FALSE
    /\ RunIdle

\* The call: Promise.all(items.map(translator)) when unbounded, else
\* workerCount workers, each sleeping workerIndex * startDelay first when
\* startDelay is set.
QCall ==
    /\ qpc = "init"
    /\ qpc' = "running"
    /\ IF IsUnbounded(workerCount)
       THEN /\ worker' = [k \in Idx |-> [pc |-> "await", i |-> k]]
            /\ calls' = [i \in Idx |-> 1]
       ELSE /\ worker' = [k \in 0..workerCount-1 |->
                            [pc |-> IF startDelay # 0 THEN "stagger" ELSE "ready",
                             i |-> -1]]
            /\ calls' = calls
    /\ UNCHANGED <<items, workerCount, startDelay, variant, index, results,
                   claims, fails, sleeps, ret, order, isExiting>>

\* await sleep(workerIndex * startDelay) is over.
StaggerDone(k) ==
    /\ qpc \in {"running"} /\ ~MicroQ
    /\ worker[k].pc = "stagger"
    /\ worker' = [worker EXCEPT ![k].pc = "ready"]
    /\ UNCHANGED <<items, workerCount, startDelay, variant, qpc, index, results,
                   claims, calls, fails, sleeps, ret, order, isExiting>>

\* The head of the outer loop, the claim and the first invocation.
WorkerLoop(k) ==
    /\ qpc = "running"
    /\ worker[k].pc = "ready"
    /\ \A j \in DOMAIN worker : worker[j].pc = "ready" => k <= j
    /\ IF CanClaim(index, Cardinality(Idx), isExiting, variant)
       THEN /\ index' = NextIndex(index)
            /\ claims' = [claims EXCEPT ![index] = @ + 1]
            /\ IF CanRetry(isExiting, variant)
               THEN /\ calls' = [calls EXCEPT ![index] = @ + 1]
                    /\ worker' = [worker EXCEPT ![k] = [pc |-> "await", i |-> index]]
               ELSE /\ calls' = calls
                    /\ worker' = [worker EXCEPT ![k] = [pc |-> "ready", i |-> index]]
       ELSE /\ worker' = [worker EXCEPT ![k].pc = "done"]
            /\ UNCHANGED <<index, claims, calls>>
    /\ UNCHANGED <<items, workerCount, startDelay, variant, qpc, results,
                   fails, sleeps, ret, order, isExiting>>

\* results[i] = await translator(items[i], i); break
TaskResolve(k) ==
    /\ qpc = "running" /\ ~MicroQ /\ ~IsUnbounded(workerCount)
    /\ worker[k].pc = "await"
    /\ LET i == worker[k].i
       IN /\ results' = StoreResult(results, i, Out(items[i], calls[i]))
          /\ order' = Append(order, i)
    /\ worker' = [worker EXCEPT ![k].pc = "ready"]
    /\ UNCHANGED <<items, workerCount, startDelay, variant, qpc, index,
                   claims, calls, fails, sleeps, ret, isExiting>>

\* catch { await sleep(retryDelay) }
TaskReject(k) ==
    /\ qpc = "running" /\ ~MicroQ /\ ~IsUnbounded(workerCount)
    /\ worker[k].pc = "await"
    /\ TotalFails < MaxFails
    /\ fails' = [fails EXCEPT ![worker[k].i] = @ + 1]
    /\ worker' = [worker EXCEPT ![k] = AfterReject(@)]
    /\ UNCHANGED <<items, workerCount, startDelay, variant, qpc, index, results,
                   claims, calls, sleeps, ret, order, isExiting>>

\* The retry sleep is over: the head of the inner loop, then the next attempt,
\* or out to the head of the outer loop.
SleepDone(k) ==
    /\ qpc = "running" /\ ~MicroQ
    /\ worker[k].pc = "sleep"
    /\ LET i == worker[k].i
       IN /\ sleeps' = [sleeps EXCEPT ![i] = @ + 1]
          /\ IF CanRetry(isExiting, variant)
             THEN /\ calls' = [calls EXCEPT ![i] = @ + 1]
                  /\ worker' = [worker EXCEPT ![k].pc = "await"]
             ELSE /\ calls' = calls
                  /\ worker' = [worker EXCEPT ![k].pc = "ready"]
    /\ UNCHANGED <<items, workerCount, startDelay, variant, qpc, index, results,
                   claims, fails, ret, order, isExiting>>

\* Unbounded: one item's promise fulfils; Promise.all keeps it at its position.
UResolve(k) ==
    /\ qpc \in {"running", "rejected"} /\ ~MicroQ /\ IsUnbounded(workerCount)
    /\ worker[k].pc = "await"
    /\ results' = StoreResult(results, k, Out(items[k], calls[k]))
    /\ order' = Append(order, k)
    /\ worker' = [worker EXCEPT ![k].pc = "done"]
    /\ UNCHANGED <<items, workerCount, startDelay, variant, qpc, index,
                   claims, calls, fails, sleeps, ret, isExiting>>

\* Unbounded: one item's promise rejects, and with it Promise.all.
UReject(k) ==
    /\ qpc \in {"running", "rejected"} /\ ~MicroQ /\ IsUnbounded(workerCount)
    /\ worker[k].pc = "await"
    /\ TotalFails < MaxFails
    /\ fails' = [fails EXCEPT ![k] = @ + 1]
    /\ worker' = [worker EXCEPT ![k].pc = "failed"]
    /\ qpc' = "rejected"
    /\ UNCHANGED <<items, workerCount, startDelay, variant, index, results,
                   claims, calls, sleeps, ret, order, isExiting>>

\* await Promise.all(...); return results
QReturn ==
    /\ qpc = "running"
    /\ AllDone
    /\ qpc' = "returned"
    /\ ret' = results
    /\ UNCHANGED <<items, workerCount, startDelay, variant, index, results,
                   worker, claims, calls, fails, sleeps, order, isExiting>>

\* SIGINT: main.js sets the flag; part_000 installs no handler and dies.
SigintQ ==
    /\ qpc \in {"init", "running"} /\ ~MicroQ
    /\ ~isExiting
    /\ IF variant = "main"
       THEN isExiting' = TRUE /\ qpc' = qpc
       ELSE isExiting' = isExiting /\ qpc' = "killed"
    /\ UNCHANGED <<items, workerCount, startDelay, variant, index, results,
                   worker, claims, calls, fails, sleeps, ret, order>>

QProgress ==
    \/ UNCHANGED rvars /\ QCall
    \/ UNCHANGED rvars /\ \E k \in DOMAIN worker : StaggerDone(k)
    \/ UNCHANGED rvars /\ \E k \in DOMAIN worker : WorkerLoop(k)
    \/ UNCHANGED rvars /\ \E k \in DOMAIN worker : TaskResolve(k)
    \/ UNCHANGED rvars /\ \E k \in DOMAIN worker : TaskReject(k)
    \/ UNCHANGED rvars /\ \E k \in DOMAIN worker : SleepDone(k)
    \/ UNCHANGED rvars /\ \E k \in DOMAIN worker : UResolve(k)
    \/ UNCHANGED rvars /\ \E k \in DOMAIN worker : UReject(k)
    \/ UNCHANGED rvars /\ QReturn

NextQ == QProgress \/ (SigintQ /\ UNCHANGED rvars)

SpecQ == InitQ /\ [][NextQ]_vars

\* The event loop runs every continuation that is ready, and every timer fires.
FairSpecQ == InitQ /\ [][NextQ]_vars /\ WF_vars(QProgress)

\* ------------------------------------------------------------------------
\* The run's steps
\* ------------------------------------------------------------------------
Bounded(q) == task[q].st = "running" /\ ~IsUnbounded(threads)
Unbounded(q) == task[q].st = "running" /\ IsUnbounded(threads)

WorkersDone(q) == \A k \in DOMAIN queue[q].worker : queue[q].worker[k].pc = "done"

Gathered(q) == /\ queue[q].index = ItemCount(q)
               /\ \A i \in 0..ItemCount(q) - 1 : task[Child(q, i)].st = "resolved"

\* Promise.all(items.map(...)): one of the promises has rejected.
AnyRejected(q) == \E i \in 0..queue[q].index - 1 : task[Child(q, i)].st = "rejected"

\* The continuations that are pending and run before any timer, I/O or
\* signal: <<q, k>> for worker k of node q's queue (at its loop head, or its
\* item's task resolved), <<q, -1>> for node q's items.map or its resolution.
MicroSteps ==
    IF ~Alive THEN {}
    ELSE { <<q, k>> \in UNION { {q} \X DOMAIN queue[q].worker : q \in DOMAIN task } :
             /\ Bounded(q)
             /\ LET w == queue[q].worker[k]
                IN \/ w.pc = "ready"
                   \/ w.pc = "await" /\ task[Child(q, w.i)].st \in {"resolved", "rejected"} }
         \cup
         { <<q, -1>> : q \in { n \in DOMAIN task :
             \/ Bounded(n) /\ WorkersDone(n)
             \/ Unbounded(n) /\ (queue[n].index < ItemCount(n) \/ Gathered(n))
             \/ Unbounded(n) /\ AnyRejected(n) } }

Micro == MicroSteps # {} \/ (mainpc = "walking" /\ task[Root].st \in {"resolved", "rejected"})

\* Continuations run in the order the calls were made: a call runs to its
\* first await before its caller goes on, so the deeper node comes first, and
\* within a queue the worker created first.
LexLess(a, b) == \E j \in 1..Len(a) : a[j] < b[j] /\ \A m \in 1..j - 1 : a[m] = b[m]

Before(x, y) ==
    \/ Len(x[1]) > Len(y[1])
    \/ Len(x[1]) = Len(y[1]) /\ LexLess(x[1], y[1])
    \/ x[1] = y[1] /\ x[2] < y[2]

Turn(q, k) == /\ <<q, k>> \in MicroSteps
              /\ \A y \in MicroSteps : y = <<q, k>> \/ Before(<<q, k>>, y)

\* The command lines a resuming process is tried with.
ResumeArgv == {[repeat |-> 0, threads |-> 0],
               [repeat |-> MaxRepeat, threads |-> MaxThreads]}

FreshNodes(d) == [n \in Nodes(d) |-> NoTask]

\* A process started without --resume on one of the lang files docs with one
\* of the command lines cmds, before main's first step.
InitOn(docs, cmds) ==
    /\ QueueIdle
    /\ isExiting = FALSE
    /\ srcDoc \in docs
    /\ argv \in cmds
    /\ langJson = srcDoc
    /\ times = argv.repeat
    /\ threads = argv.threads
    /\ mainpc = "setup"
    /\ task = FreshNodes(langJson)
    /\ leaf = [n \in Nodes(langJson) |-> NoLeaf]
    /\ queue = [n \in Nodes(langJson) |-> NoQueue]
    /\ writes = [n \in Nodes(langJson) |-> NoFile]
    /\ progress = << >>
    /\ resumeFile = NoFile
    /\ outFile = NoValue
    /\ hist = NoHist

Init == InitOn(Docs, [repeat : 0..MaxRepeat, threads : 0..MaxThreads])

\* A lang file with a leaf beside an array of two leaves, walked unbounded
\* or by pools of two workers.
NestedDoc == Obj(<<"a", "b">>, <<Str(<<"x">>), Arr(<<Str(<<"y">>), Str(<<"z">>)>>)>>)

InitN == InitOn({NestedDoc}, [repeat : {1}, threads : {0, 2}])

\* main reaches  await translateJsonConcurrent(langJson, ..., "", progress).
StartWalk(lng) ==
    /\ mainpc = "setup"
    /\ mainpc' = "walking"
    /\ LET D == Dispatch(Root, "", progress, lng)
       IN /\ task' = [task EXCEPT ![Root] = D.task]
          /\ leaf' = [leaf EXCEPT ![Root] = D.leaf]
          /\ queue' = [queue EXCEPT ![Root] = D.queue]
          /\ progress' = D.progress
    /\ UNCHANGED <<isExiting, srcDoc, argv, langJson, times, threads, writes,
                   resumeFile, outFile, hist>>

\* A worker of node q's translateQueue at the head of its outer loop: it
\* claims the next item and calls the translator on it, or returns.
WalkWorkerLoop(q, k, lng) ==
    /\ Alive /\ Bounded(q)
    /\ queue[q].worker[k].pc = "ready"
    /\ Turn(q, k)
    /\ IF CanClaim(queue[q].index, ItemCount(q), isExiting, "main")
       THEN LET i == queue[q].index
                c == Child(q, i)
                D == Dispatch(c, ChildPath(q, i), progress, lng)
            IN /\ queue' = [queue EXCEPT ![q].index = NextIndex(@),
                                         ![q].worker[k] = [pc |-> "await", i |-> i],
                                         ![c] = D.queue]
               /\ task' = [task EXCEPT ![c] = D.task]
               /\ leaf' = [leaf EXCEPT ![c] = D.leaf]
               /\ progress' = D.progress
       ELSE /\ queue' = [queue EXCEPT ![q].worker[k].pc = "done"]
            /\ UNCHANGED <<task, leaf, progress>>
    /\ UNCHANGED <<isExiting, srcDoc, argv, langJson, times, threads, mainpc,
                   writes, resumeFile, outFile, hist>>

\* results[i] = await translator(items[i], i); break
WalkWorkerResume(q, k) ==
    /\ Alive /\ Bounded(q)
    /\ queue[q].worker[k].pc = "await"
    /\ Turn(q, k)
    /\ LET i == queue[q].worker[k].i
           c == Child(q, i)
       IN /\ task[c].st = "resolved"
          /\ queue' = [queue EXCEPT ![q].results = StoreResult(@, i, task[c].value),
                                    ![q].worker[k].pc = "ready"]
          /\ task' = [task EXCEPT ![c].st = "stored"]
    /\ UNCHANGED <<isExiting, srcDoc, argv, langJson, times, threads, mainpc,
                   leaf, writes, progress, resumeFile, outFile, hist>>

\* Unbounded: items.map calls the translator on the next item.
MapNext(q, lng) ==
    /\ Alive /\ Unbounded(q) /\ Turn(q, -1)
    /\ queue[q].index < ItemCount(q)
    /\ LET i == queue[q].index
           c == Child(q, i)
           D == Dispatch(c, ChildPath(q, i), progress, lng)
       IN /\ queue' = [queue EXCEPT ![q].index = @ + 1, ![c] = D.queue]
          /\ task' = [task EXCEPT ![c] = D.task]
          /\ leaf' = [leaf EXCEPT ![c] = D.leaf]
          /\ progress' = D.progress
    /\ UNCHANGED <<isExiting, srcDoc, argv, langJson, times, threads, mainpc,
                   writes, resumeFile, outFile, hist>>

\* translateQueue of node q resolves (every worker has returned, or
\* Promise.all has every item's value), and with it the node's task.
QueueDone(q) ==
    /\ Alive /\ Turn(q, -1)
    /\ \/ Bounded(q) /\ WorkersDone(q)
       \/ Unbounded(q) /\ Gathered(q)
    /\ LET nd == NodeAt(langJson, q)
           res == IF IsUnbounded(threads)
                  THEN [i \in 0..ItemCount(q) - 1 |-> task[Child(q, i)].value]
                  ELSE queue[q].results
       IN task' = [task EXCEPT ![q].st = "resolved",
                               ![q].value = Assemble(nd.kind, nd.keys, res)]
    /\ UNCHANGED <<isExiting, srcDoc, argv, langJson, times, threads, mainpc,
                   leaf, queue, writes, progress, resumeFile, outFile, hist>>

\* What follows the while loop of a pass, with the leaf's locals L:
\* progress[uniquePath] = i + 1, then the checkpoint if isExiting, else i++
\* and the head of the for loop.
AfterWhile(L, path, lng) ==
    LET P1 == SetProgress(progress, path, L.i + 1)
    IN IF isExiting
       THEN [st |-> "saving", leaf |-> L, progress |-> P1]
       ELSE LET E == EnterLoop([L EXCEPT !.i = @ + 1], lng)
            IN [st |-> E.st, leaf |-> E.leaf, progress |-> P1]

\* The leaf's step after the while loop has been left, as a next-state relation.
LeaveWhile(n, L, lng) ==
    LET A == AfterWhile(L, task[n].path, lng)
    IN /\ task' = [task EXCEPT ![n].st = A.st]
       /\ leaf' = [leaf EXCEPT ![n] = A.leaf]
       /\ progress' = A.progress
       /\ IF A.st = "saving"
          THEN /\ writes' = [writes EXCEPT ![n] = Checkpoint(n, A.progress)]
               /\ hist' = [hist EXCEPT !.saveCalls = @ + 1,
                                       !.saved = @ \cup {[json |-> CurrentTree(Root)',
                                                           progress |-> A.progress]}]
          ELSE UNCHANGED <<writes, hist>>

\* translate (or trans) returns a non-empty text.
FwdOk(n, lng) ==
    /\ Alive /\ task[n].st = "fwd"
    /\ ~Micro
    /\ UNCHANGED <<isExiting, srcDoc, argv, langJson, times, threads, mainpc,
                   queue, resumeFile, outFile>>
    /\ LET L == leaf[n]
       IN LeaveWhile(n, [L EXCEPT !.text = Append(@, L.lang),
                                  !.attemptSucceeded = TRUE,
                                  !.passLog = Append(@, L.i)], lng)

\* translate returns "": text = res.text, then the throw and the retry sleep.
FwdEmpty(n) ==
    /\ Alive /\ task[n].st = "fwd"
    /\ ~Micro
    /\ hist.fails < MaxTransFails
    /\ hist' = [hist EXCEPT !.fails = @ + 1]
    /\ leaf' = [leaf EXCEPT ![n].text = << >>, ![n].empties = @ + 1]
    /\ task' = [task EXCEPT ![n].st = "sleep"]
    /\ UNCHANGED <<isExiting, srcDoc, argv, langJson, times, threads, mainpc,
                   queue, writes, progress, resumeFile, outFile>>

\* translate throws: the retry sleep.
FwdThrow(n) ==
    /\ Alive /\ task[n].st = "fwd"
    /\ ~Micro
    /\ hist.fails < MaxTransFails
    /\ hist' = [hist EXCEPT !.fails = @ + 1]
    /\ task' = [task EXCEPT ![n].st = "sleep"]
    /\ UNCHANGED <<isExiting, srcDoc, argv, langJson, times, threads, mainpc,
                   leaf, queue, writes, progress, resumeFile, outFile>>

\* The retry sleep is over: a language is drawn again, then the head of the
\* while loop: the next attempt, or out of the loop.
RetrySleepDone(n, lng, lng2) ==
    /\ Alive /\ task[n].st = "sleep"
    /\ ~Micro
    /\ UNCHANGED <<isExiting, srcDoc, argv, langJson, times, threads, mainpc,
                   queue, resumeFile, outFile>>
    /\ LET L == [leaf[n] EXCEPT !.lang = lng]
       IN IF WhileCond(L.attemptSucceeded, isExiting)
          THEN /\ task' = [task EXCEPT ![n].st = "fwd"]
               /\ leaf' = [leaf EXCEPT ![n] = [L EXCEPT !.callLog = Append(@, L.i)]]
               /\ UNCHANGED <<progress, writes, hist>>
          ELSE LeaveWhile(n, L, lng2)

\* fs.writeJson(RESUME_FILE, ...) has written the file; process.exit().
SaveDone(n) ==
    /\ Alive /\ task[n].st = "saving"
    /\ ~Micro
    /\ resumeFile' = writes[n]
    /\ mainpc' = "exited"
    /\ UNCHANGED <<isExiting, srcDoc, argv, langJson, times, threads, task, leaf,
                   queue, writes, progress, outFile, hist>>

\* fs.writeJson(RESUME_FILE, ...) fails: the await throws outside every try
\* of translateJsonConcurrent, whose promise rejects.
SaveFail(n) ==
    /\ Alive /\ task[n].st = "saving"
    /\ ~Micro
    /\ hist.saveFails < MaxSaveFails
    /\ hist' = [hist EXCEPT !.saveFails = @ + 1]
    /\ task' = [task EXCEPT ![n].st = "rejected"]
    /\ UNCHANGED <<isExiting, srcDoc, argv, langJson, times, threads, mainpc,
                   leaf, queue, writes, progress, resumeFile, outFile>>

\* catch { await sleep(retryDelay); } in a worker whose translator rejected.
WalkWorkerCatch(q, k) ==
    /\ Alive /\ Bounded(q)
    /\ queue[q].worker[k].pc = "await"
    /\ task[Child(q, queue[q].worker[k].i)].st = "rejected"
    /\ Turn(q, k)
    /\ queue' = [queue EXCEPT ![q].worker[k] = AfterReject(@)]
    /\ task' = [task EXCEPT ![Child(q, queue[q].worker[k].i)].st = "caught"]
    /\ UNCHANGED <<isExiting, srcDoc, argv, langJson, times, threads, mainpc,
                   leaf, writes, progress, resumeFile, outFile, hist>>

\* That sleep is over: the head of the worker's inner loop, then the
\* translator again on the same item, or out to the head of the outer loop.
WalkWorkerSleepDone(q, k, lng) ==
    /\ Alive /\ Bounded(q)
    /\ queue[q].worker[k].pc = "sleep"
    /\ ~Micro
    /\ IF CanRetry(isExiting, "main")
       THEN LET i == queue[q].worker[k].i
                c == Child(q, i)
                D == Dispatch(c, ChildPath(q, i), progress, lng)
            IN /\ queue' = [queue EXCEPT ![q].worker[k].pc = "await", ![c] = D.queue]
               /\ task' = [task EXCEPT ![c] = D.task]
               /\ leaf' = [leaf EXCEPT ![c] = D.leaf]
               /\ progress' = D.progress
       ELSE /\ queue' = [queue EXCEPT ![q].worker[k].pc = "ready"]
            /\ UNCHANGED <<task, leaf, progress>>
    /\ UNCHANGED <<isExiting, srcDoc, argv, langJson, times, threads, mainpc,
                   writes, resumeFile, outFile, hist>>

\* Unbounded: Promise.all rejects with the first of its promises that does,
\* and with it translateQueue and the node's task.
QueueReject(q) ==
    /\ Alive /\ Unbounded(q) /\ AnyRejected(q)
    /\ Turn(q, -1)
    /\ task' = [task EXCEPT ![q].st = "rejected"]
    /\ UNCHANGED <<isExiting, srcDoc, argv, langJson, times, threads, mainpc,
                   leaf, queue, writes, progress, resumeFile, outFile, hist>>

\* main().catch(err => console.error(err))
MainCatch ==
    /\ mainpc = "walking"
    /\ task[Root].st = "rejected"
    /\ mainpc' = "failed"
    /\ UNCHANGED <<isExiting, srcDoc, argv, langJson, times, threads, task, leaf,
                   queue, writes, progress, resumeFile, outFile, hist>>

\* The call back to English returns (a text, or ""); the leaf's task resolves.
BackOk(n, empty) ==
    /\ Alive /\ task[n].st = "back"
    /\ ~Micro
    /\ LET t == IF empty THEN << >> ELSE Append(leaf[n].text, "en")
       IN /\ leaf' = [leaf EXCEPT ![n].text = t,
                                   ![n].back = IF empty THEN "empty" ELSE "ok"]
          /\ task' = [task EXCEPT ![n].st = "resolved", ![n].value = Str(t)]
    /\ UNCHANGED <<isExiting, srcDoc, argv, langJson, times, threads, mainpc,
                   queue, writes, progress, resumeFile, outFile, hist>>

\* The call back to English throws: catch {} and the text as it was.
BackThrow(n) ==
    /\ Alive /\ task[n].st = "back"
    /\ ~Micro
    /\ hist.fails < MaxTransFails
    /\ hist' = [hist EXCEPT !.fails = @ + 1]
    /\ task' = [task EXCEPT ![n].st = "resolved", ![n].value = Str(leaf[n].text)]
    /\ leaf' = [leaf EXCEPT ![n].back = "throw"]
    /\ UNCHANGED <<isExiting, srcDoc, argv, langJson, times, threads, mainpc,
                   queue, writes, progress, resumeFile, outFile>>

\* Some string leaf of the document is not translated to the end yet.
WorkOutstanding ==
    /\ mainpc = "walking"
    /\ \E n \in DOMAIN task :
         NodeAt(langJson, n).kind = "string" /\ task[n].st \notin {"resolved", "stored"}

\* process.on("SIGINT", ...): isExiting = true
Sigint ==
    /\ Alive /\ ~Micro
    /\ ~isExiting
    /\ isExiting' = TRUE
    /\ hist' = [hist EXCEPT !.cancelledAtWork = WorkOutstanding]
    /\ UNCHANGED <<srcDoc, argv, langJson, times, threads, mainpc, task, leaf,
                   queue, writes, progress, resumeFile, outFile>>

\* translateJsonConcurrent has resolved: await fs.writeJson(langPath, translatedJson)
MainWrite ==
    /\ mainpc = "walking"
    /\ task[Root].st = "resolved"
    /\ mainpc' = "writing"
    /\ UNCHANGED <<isExiting, srcDoc, argv, langJson, times, threads, task, leaf,
                   queue, writes, progress, resumeFile, outFile, hist>>

\* The result file is written.
WriteDone ==
    /\ mainpc = "writing" /\ ~Micro
    /\ outFile' = task[Root].value
    /\ mainpc' = "clearing"
    /\ UNCHANGED <<isExiting, srcDoc, argv, langJson, times, threads, task, leaf,
                   queue, writes, progress, resumeFile, hist>>

\* if (await fs.pathExists(RESUME_FILE)) await fs.remove(RESUME_FILE)
ClearDone ==
    /\ mainpc = "clearing" /\ ~Micro
    /\ resumeFile' = NoFile
    /\ mainpc' = "done"
    /\ UNCHANGED <<isExiting, srcDoc, argv, langJson, times, threads, task, leaf,
                   queue, writes, progress, outFile, hist>>

\* A new process, started with --resume and the command line a, after the
\* checkpoint was written: main up to the call of translateJsonConcurrent.
Resume(a) ==
    /\ mainpc = "exited"
    /\ resumeFile.exists
    /\ hist.resumes < MaxResumes
    /\ isExiting' = FALSE
    /\ argv' = a
    /\ times' = OrNum(resumeFile.argv.repeat, a.repeat)
    /\ threads' = OrNum(resumeFile.argv.threads, a.threads)
    /\ langJson' = OrValue(resumeFile.json, srcDoc)
    /\ progress' = resumeFile.progress
    /\ mainpc' = "setup"
    /\ task' = FreshNodes(langJson')
    /\ leaf' = [n \in Nodes(langJson') |-> NoLeaf]
    /\ queue' = [n \in Nodes(langJson') |-> NoQueue]
    /\ writes' = [n \in Nodes(langJson') |-> NoFile]
    /\ hist' = [hist EXCEPT !.resumes = @ + 1, !.saveCalls = 0,
                            !.saved = {}, !.cancelledAtWork = FALSE,
                            !.saveFails = 0]
    /\ UNCHANGED <<srcDoc, resumeFile, outFile>>

Next ==
    \/ UNCHANGED qvars /\ \E lng \in Languages : StartWalk(lng)
    \/ UNCHANGED qvars /\ \E q \in DOMAIN task : \E k \in DOMAIN queue[q].worker :
         \E lng \in Languages : WalkWorkerLoop(q, k, lng)
    \/ UNCHANGED qvars /\ \E q \in DOMAIN task : \E k \in DOMAIN queue[q].worker :
         WalkWorkerResume(q, k)
    \/ UNCHANGED qvars /\ \E q \in DOMAIN task : \E lng \in Languages : MapNext(q, lng)
    \/ UNCHANGED qvars /\ \E q \in DOMAIN task : QueueDone(q)
    \/ UNCHANGED qvars /\ \E n \in DOMAIN task : \E lng \in Languages : FwdOk(n, lng)
    \/ UNCHANGED qvars /\ \E n \in DOMAIN task : FwdEmpty(n)
    \/ UNCHANGED qvars /\ \E n \in DOMAIN task : FwdThrow(n)
    \/ UNCHANGED qvars /\ \E n \in DOMAIN task : \E lng, lng2 \in Languages :
         RetrySleepDone(n, lng, lng2)
    \/ UNCHANGED qvars /\ \E n \in DOMAIN task : SaveDone(n)
    \/ UNCHANGED qvars /\ \E n \in DOMAIN task : \E e \in BOOLEAN : BackOk(n, e)
    \/ UNCHANGED qvars /\ \E n \in DOMAIN task : BackThrow(n)
    \/ UNCHANGED qvars /\ Sigint
    \/ UNCHANGED qvars /\ MainWrite
    \/ UNCHANGED qvars /\ WriteDone
    \/ UNCHANGED qvars /\ ClearDone
    \/ UNCHANGED qvars /\ \E a \in ResumeArgv : Resume(a)

Spec == Init /\ [][Next]_vars

\* The run on a file system where writing RESUME_FILE may fail.
NextF ==
    \/ Next
    \/ UNCHANGED qvars /\ \E n \in DOMAIN task : SaveFail(n)
    \/ UNCHANGED qvars /\ \E q \in DOMAIN task : \E k \in DOMAIN queue[q].worker :
         WalkWorkerCatch(q, k)
    \/ UNCHANGED qvars /\ \E q \in DOMAIN task : \E k \in DOMAIN queue[q].worker :
         \E lng \in Languages : WalkWorkerSleepDone(q, k, lng)
    \/ UNCHANGED qvars /\ \E q \in DOMAIN task : QueueReject(q)
    \/ UNCHANGED qvars /\ MainCatch

SpecF == Init /\ [][NextF]_vars

SpecN == InitN /\ [][Next]_vars

\* ------------------------------------------------------------------------
\* Claims about translateQueue
\* ------------------------------------------------------------------------
\* Items claimed from the cursor whose result slot is not assigned yet.
InFlight == {i \in Idx : claims[i] > 0 /\ i \notin DOMAIN results}

NoCancelQ == ~isExiting /\ qpc # "killed"

\* C1: with workerCount = N > 0 at most N items are in flight in every state
\* and no index is claimed twice; with no cancellation and every task
\* succeeding in the end, every index 0..M-1 is eventually claimed exactly once.
C1_BoundedExactlyOnce ==
    /\ [](workerCount > 0 =>
            /\ Cardinality(InFlight) <= workerCount
            /\ \A i \in Idx : claims[i] <= 1)
    /\ ([]NoCancelQ => <>(workerCount > 0 => \A i \in Idx : claims[i] = 1))

C1_Witness ==
    /\ workerCount = 2 /\ Cardinality(Idx) > workerCount
    /\ NoCancelQ /\ qpc = "returned"
    /\ TotalFails > 0
    /\ \A i \in Idx : claims[i] = 1

\* C2: with workerCount > 0 and no cancellation, an item whose task failed K
\* times and then succeeded was invoked K+1 times, each retry after one retry
\* sleep, and its slot holds the (K+1)-th invocation's output; the queue
\* returns only when every item has got there.
C2_RetryUntilSuccess ==
    (workerCount > 0 /\ NoCancelQ) =>
        /\ \A i \in Idx : calls[i] <= sleeps[i] + 1 /\ sleeps[i] <= fails[i]
        /\ \A i \in DOMAIN results :
              /\ calls[i] = fails[i] + 1
              /\ sleeps[i] = fails[i]
              /\ results[i] = Out(items[i], fails[i] + 1)
        /\ qpc = "returned" => DOMAIN ret = Idx /\ ret = results

C2_Witness ==
    /\ workerCount > 0 /\ NoCancelQ /\ qpc = "returned"
    /\ \E i \in DOMAIN ret : fails[i] = 2 /\ calls[i] = 3 /\ ret[i] = Out(items[i], 3)

\* C8: with workerCount > 0, once isExiting is set no worker claims an item
\* or starts an attempt, an item never claimed has no result slot, and the
\* flag stays set.
C8_CancelStopsQueue ==
    /\ [][(isExiting /\ workerCount > 0) =>
            (claims' = claims /\ calls' = calls /\ index' = index)]_vars
    /\ [][isExiting => isExiting']_vars
    /\ [](workerCount > 0 => \A i \in Idx : claims[i] = 0 => i \notin DOMAIN results)

C8_Witness ==
    /\ workerCount > 0 /\ isExiting /\ qpc = "returned"
    /\ \E i \in Idx : claims[i] = 0 /\ i \notin DOMAIN ret
    /\ \E i \in Idx : i \in DOMAIN ret
    /\ \E i \in Idx : claims[i] = 1 /\ fails[i] > 0 /\ i \notin DOMAIN ret

\* C11: without cancellation, for every workerCount >= 0 a result slot i only
\* ever holds the outcome of the task on items[i] (of its one invocation that
\* fulfilled), and when translateQueue returns every index has its slot,
\* whatever the order in which the invocations fulfilled.
C11_ResultsByIndex ==
    NoCancelQ =>
        /\ \A i \in DOMAIN results :
              results[i] = Out(items[i], calls[i]) /\ calls[i] = fails[i] + 1
        /\ qpc = "returned" =>
              /\ DOMAIN ret = Idx
              /\ \A i \in Idx : ret[i] = Out(items[i], calls[i])
              /\ Len(order) = Cardinality(Idx)

C11_Witness ==
    /\ qpc = "returned" /\ NoCancelQ
    /\ workerCount = 0 /\ Cardinality(Idx) = 3
    /\ order = <<2, 0, 1>>
    /\ \A i \in Idx : ret[i] = Out(items[i], 1)

\* C17: for every workerCount >= 0 an invocation that throws never makes
\* translateQueue fail, and without cancellation the call returns every
\* item's outcome.
C17_FailureIsolated ==
    /\ qpc # "rejected"
    /\ (qpc = "returned" /\ NoCancelQ) => DOMAIN ret = Idx

\* ------------------------------------------------------------------------
\* Claims about the run
\* ------------------------------------------------------------------------
StringLeaves == {n \in DOMAIN task : NodeAt(langJson, n).kind = "string"}

Started(n) == task[n].st # "none"

PastLoop(n) == task[n].st \in {"back", "resolved", "stored"}

\* The count the leaf was entered with: progress[P], or 0 when P was absent.
EntryCount(n) == IF leaf[n].entry < 0 THEN 0 ELSE leaf[n].entry

C4_CheckpointRoundTrip ==
    mainpc = "exited" =>
        [json |-> resumeFile.json, progress |-> resumeFile.progress] \in hist.saved

\* C5: the checkpoint save is never called twice, and a process whose flag
\* was set while a string leaf was still to be translated never goes on to
\* write the result, and has called the save exactly once when it ends.
C5_SaveExactlyOnce ==
    /\ hist.saveCalls <= 1
    /\ hist.cancelledAtWork =>
          /\ mainpc \notin {"writing", "clearing", "done"}
          /\ mainpc = "exited" => hist.saveCalls = 1

\* The leaf's task is over, with every forward pass that was due and the
\* call back to English.
LeafComplete(n) ==
    /\ task[n].st \in {"resolved", "stored"}
    /\ EntryCount(n) + Len(leaf[n].passLog) >= times
    /\ leaf[n].backCalls = 1

\* C6: main writes the result and removes the checkpoint only when every
\* string leaf of the document has completed its forward passes and its
\* back-translation.
C6_WriteOnlyWhenComplete ==
    mainpc \in {"writing", "clearing", "done"} =>
        \A n \in StringLeaves : LeafComplete(n)

\* C7: in every state, progress[P] of a string leaf that was dispatched is
\* the count it was entered with plus the number of its passes that succeeded.
C7_ProgressCountsSuccesses ==
    \A n \in StringLeaves :
        (Started(n) /\ leaf[n].entry # NotANumber) =>
            /\ task[n].path \in DOMAIN progress
            /\ progress[task[n].path] = EntryCount(n) + Len(leaf[n].passLog)

\* C9: once isExiting is set, no string leaf starts a forward-pass call or
\* its call back to English.
C9_NoCallAfterCancel ==
    [][(isExiting /\ isExiting') =>
          \A n \in DOMAIN leaf :
              /\ leaf'[n].callLog = leaf[n].callLog
              /\ leaf'[n].backCalls = leaf[n].backCalls]_vars

\* The shape of a JSON value: its type, an object's keys in order, an
\* array's length, and what a scalar that is not a string holds.
RECURSIVE Shape(_)
Shape(v) == [kind |-> v.kind,
             val  |-> IF v.kind = "string" THEN << >> ELSE v.val,
             keys |-> v.keys,
             vals |-> [k \in DOMAIN v.vals |-> Shape(v.vals[k])]]

\* C10: the walk of a process that was not cancelled returns a tree of the
\* document's shape, every scalar that is not a string unchanged and without
\* a translator call.
C10_ShapePreserved ==
    (task[Root].st = "resolved" /\ ~isExiting) =>
        /\ Shape(task[Root].value) = Shape(langJson)
        /\ \A n \in DOMAIN task :
              NodeAt(langJson, n).kind = "number" => leaf[n] = NoLeaf

\* C12: two distinct string leaves that were dispatched never carry the same
\* path, so no two leaves share a key of progress.
C12_PathsUnique ==
    \A m, n \in StringLeaves :
        (Started(m) /\ Started(n) /\ m # n) => task[m].path # task[n].path

\* C13: a leaf that went through its passes uncancelled calls the translator
\* back to English once, without retry; its task returns the text of that
\* call when it succeeded and, when it threw or returned an empty text, the
\* text the leaf held after its last forward pass; and the step that ends
\* the call leaves progress alone.
C13_BackOnceKeepsText ==
    /\ [](\A n \in StringLeaves :
            (task[n].st \in {"resolved", "stored"} /\ ~isExiting) =>
                /\ leaf[n].backCalls = 1
                /\ task[n].value = Str(IF leaf[n].back = "ok"
                                       THEN Append(leaf[n].fwdText, "en")
                                       ELSE leaf[n].fwdText))
    /\ [][\A n \in DOMAIN task \cap DOMAIN task' :
            (task[n].st = "back" /\ task'[n].st = "resolved") =>
                progress' = progress]_vars

\* C14: a process in which a write of the checkpoint has failed never goes
\* on to write the result, remove the checkpoint or end as done.
C14_SaveFailureAborts ==
    hist.saveFails > 0 => mainpc \notin {"writing", "clearing", "done"}

\* C15: a process that resumes runs with the repeat count and the thread
\* count the checkpoint stores, whatever its own command line says.
C15_ResumeUsesStoredConfig ==
    [][(mainpc = "exited" /\ mainpc' = "setup") =>
          /\ times' = resumeFile.argv.repeat
          /\ threads' = resumeFile.argv.threads]_vars

\* The path the walker gives the node at pos of the document v, whose own
\* path is prefix.
RECURSIVE PathAt(_, _, _)
PathAt(v, prefix, pos) ==
    IF pos = << >> THEN prefix
    ELSE LET k == v.keys[Head(pos) + 1]
         IN PathAt(v.vals[k], ItemPath(v.kind, prefix, k), Tail(pos))

LeafPaths == {PathAt(langJson, "", n) : n \in StringLeaves}

\* C16: no process walks a document with a progress map that has a key
\* which is not the path of a string leaf of that document.
C16_ResumeMatchesDocument ==
    mainpc = "walking" => DOMAIN progress \subseteq LeafPaths

\* The string leaves with a call of the translator in flight.
CallsInFlight == {n \in StringLeaves : task[n].st \in {"fwd", "back"}}

\* C18: with threads = N > 0, at most N calls of the translator are in
\* flight at any instant, over the whole walk.
C18_GlobalCap ==
    threads > 0 => Cardinality(CallsInFlight) <= threads

\* C19: every string leaf that was dispatched has its path as a key of the
\* progress map, every count c of the map satisfies 0 <= c <= times, and
\* once the walk of a process that was not cancelled has returned, the map
\* has exactly one key for each string leaf, with the count times.
C19_ProgressMapBounds ==
    /\ \A n \in StringLeaves : Started(n) => task[n].path \in DOMAIN progress
    /\ \A k \in DOMAIN progress : 0 <= progress[k] /\ progress[k] <= times
    /\ (mainpc \in {"writing", "clearing", "done"} /\ ~isExiting) =>
            /\ DOMAIN progress = LeafPaths
            /\ Cardinality(DOMAIN progress) = Cardinality(StringLeaves)
            /\ \A k \in DOMAIN progress : progress[k] = times

\* C20: with times = 0 and no cancellation, a string leaf makes no forward
\* call and, once its task has returned, exactly one call back to English;
\* its count in progress is 0 from its dispatch on; and the walk returns a
\* tree of the document's shape.
C20_ZeroPasses ==
    (times = 0 /\ ~isExiting) =>
        /\ \A n \in StringLeaves :
              /\ leaf[n].callLog = << >>
              /\ Started(n) => /\ task[n].path \in DOMAIN progress
                               /\ progress[task[n].path] = 0
              /\ task[n].st \in {"resolved", "stored"} => leaf[n].backCalls = 1
        /\ task[Root].st = "resolved" => Shape(task[Root].value) = Shape(langJson)

\* C21: a forward attempt that fails, by a throw or by an empty result,
\* leaves the leaf's text as it was, the retry sleep leaves it as it was too,
\* so the retry submits the text the failed attempt submitted; and the text
\* of a leaf in its forward passes, up to the call back to English, is never
\* the empty string.
C21_FailedAttemptKeepsText ==
    /\ [][\A n \in DOMAIN task \cap DOMAIN task' :
            (\/ task[n].st = "fwd" /\ task'[n].st = "sleep"
             \/ task[n].st = "sleep" /\ task'[n].st = "fwd") =>
                leaf'[n].text = leaf[n].text]_vars
    /\ [](\A n \in StringLeaves :
            task[n].st \in {"fwd", "sleep", "saving", "back"} => leaf[n].text # << >>)
====
